---- MODULE Spec2Model ----
(***************************************************************************)
(* The module specifier cache of a tsserver project, as exercised by       *)
(* src/testRunner/unittests/tsserver/moduleSpecifierCache.ts.              *)
(*                                                                         *)
(* The unit test drives a virtual host (writeFile, renameFile,             *)
(* runQueuedTimeoutCallbacks), a session (Configure, CompletionInfo) and   *)
(* reads the project's cache (get, count).  The host and session steps are *)
(* the actions below; the cache itself (get/set/clear/count and the        *)
(* invalidation triggers) is not part of the test file and is modelled     *)
(* from its design description, constrained by what the test asserts.      *)
(*                                                                         *)
(* Paths are sequences of segments: "/src/a.ts" is <<"src", "a.ts">>.      *)
(***************************************************************************)
EXTENDS Integers, Sequences, FiniteSets, TLC

VARIABLES
    fs,                   \* host: path -> [content] or [symLink]
    pending,              \* host: watcher notifications queued behind the timer
    preferences,          \* session: the configured ts.UserPreferences
    compilerOptions,      \* project: the options last read from tsconfig.json
    moduleSpecifierCache, \* project.getModuleSpecifierCache()
    stale,                \* history: live keys stored before the last applied invalidating event
    last                  \* history: the step just taken and the state it started from

vars == <<fs, pending, preferences, compilerOptions, moduleSpecifierCache, stale, last>>

\* The number of watcher notifications that may wait for the timer at once.
MaxPending == 2

----------------------------------------------------------------------------
(* The files of the test *)

packageJsonContent == "{ \"dependencies\": { \"mobx\": \"*\" } }"
emptyJsonContent == "{}"
tsconfigContent == "{ \"include\": [\"src\"] }"
tsconfigClassicContent == "{ \"compilerOptions\": { \"moduleResolution\": \"classic\" }, \"include\": [\"src\"] }"

packageJson == [path |-> <<"package.json">>, content |-> packageJsonContent]
aTs == [path |-> <<"src", "a.ts">>, content |-> "export const foo = 0;"]
bTs == [path |-> <<"src", "b.ts">>, content |-> "foo"]
cTs == [path |-> <<"src", "c.ts">>, content |-> "import "]
bSymlink == [path |-> <<"src", "b-link.ts">>, symLink |-> <<".", "b.ts">>]
tsconfig == [path |-> <<"tsconfig.json">>, content |-> tsconfigContent]
ambientDeclaration == [path |-> <<"src", "ambient.d.ts">>, content |-> "declare module 'ambient' {}"]
mobxPackageJson == [path |-> <<"node_modules", "mobx", "package.json">>,
                    content |-> "{ \"name\": \"mobx\", \"version\": \"1.0.0\" }"]
mobxDts == [path |-> <<"node_modules", "mobx", "index.d.ts">>,
            content |-> "export declare function observable(): unknown;"]

\* Paths the test writes or renames to
stagingPackageJsonPath == <<"node_modules", ".staging", "mobx-12345678", "package.json">>
a2TsPath == <<"src", "a2.ts">>
bLink2Path == <<"src", "b-link2.ts">>

----------------------------------------------------------------------------
(* Paths *)

Dir(p) == SubSeq(p, 1, Len(p) - 1)

BaseName(p) == p[Len(p)]

IsPrefix(d, p) == Len(d) <= Len(p) /\ SubSeq(p, 1, Len(d)) = d

\* The directories above a path, the root <<>> included
Ancestors(p) == {SubSeq(p, 1, n) : n \in 0..(Len(p) - 1)}

----------------------------------------------------------------------------
(* The virtual host's file system *)

IsLink(f, p) == p \in DOMAIN f /\ "symLink" \in DOMAIN f[p]

\* A relative link "./x" resolved against the directory of the link
LinkTarget(f, p) == IF Head(f[p].symLink) = "." THEN Dir(p) \o Tail(f[p].symLink)
                    ELSE f[p].symLink

createServerHost(files) ==
    [p \in {file.path : file \in files} |->
        LET file == CHOOSE x \in files : x.path = p
        IN IF "symLink" \in DOMAIN file THEN [symLink |-> file.symLink]
           ELSE [content |-> file.content]]

\* The notification a watcher receives for a change at path p
Event(p, kind, isLink) == [path |-> p, kind |-> kind, isLink |-> isLink]

----------------------------------------------------------------------------
(* User preferences: partial records, as ts.UserPreferences *)

EmptyPreferences == [f \in {} |-> TRUE]

Pref(prefs, field) == IF field \in DOMAIN prefs THEN prefs[field] ELSE "undefined"

\* protocol Configure merges the given preferences into the configured ones
MergePreferences(old, new) ==
    [f \in DOMAIN old \cup DOMAIN new |-> IF f \in DOMAIN new THEN new[f] ELSE old[f]]

setupPreferences ==
    [includeCompletionsForImportStatements |-> TRUE,
     includeCompletionsForModuleExports |-> TRUE,
     includeCompletionsWithInsertText |-> TRUE,
     includeCompletionsWithSnippetText |-> TRUE]

projectRelativePreferences == [importModuleSpecifierPreference |-> "project-relative"]

endingJsPreferences == [importModuleSpecifierEnding |-> "js"]

----------------------------------------------------------------------------
(* The cache: keys, entries, get / set / count / clear *)

\* The mode context every call of the test passes: {}
emptyModeContext == [m \in {} |-> TRUE]

undefined == [absent |-> TRUE]

\* Only the preference fields that influence the resolution output
preferenceFingerprint(prefs) ==
    <<Pref(prefs, "importModuleSpecifierPreference"), Pref(prefs, "importModuleSpecifierEnding")>>

CacheKey(fromFile, toFile, prefs) == <<fromFile, toFile, preferenceFingerprint(prefs)>>

EmptyStore == [k \in {} |-> undefined]

EmptyCache ==
    [store |-> EmptyStore,
     packageJsonDirs |-> {},
     nodeModulesRoots |-> {},
     symlinks |-> {},
     fingerprint |-> <<>>]

get(cache, fromFile, toFile, prefs, modeContext) ==
    LET key == CacheKey(fromFile, toFile, prefs)
    IN IF key \in DOMAIN cache.store THEN cache.store[key] ELSE undefined

count(cache) == Cardinality(DOMAIN cache.store)

clear(cache) == EmptyCache

\* The directories from a resolved module up to its nearest ancestor manifest
ManifestWatchDirs(f, p) ==
    LET withManifest == {d \in Ancestors(p) : (d \o <<"package.json">>) \in DOMAIN f}
    IN IF withManifest = {} THEN Ancestors(p)
       ELSE LET nearest == CHOOSE d \in withManifest : \A e \in withManifest : Len(e) <= Len(d)
            IN {d \in Ancestors(p) : Len(d) >= Len(nearest)}

NodeModulesAncestors(p) == {d \in Ancestors(p) : Len(d) > 0 /\ BaseName(d) = "node_modules"}

IsLinkTarget(f, p) == \E l \in DOMAIN f : IsLink(f, l) /\ LinkTarget(f, l) = p

ResolvedPaths(entry) == {entry.modulePaths[i].path : i \in DOMAIN entry.modulePaths}

\* set stores the entry under the derived key and extends the invalidation
\* scope.  The store serves one preference fingerprint at a time: a set under
\* another fingerprint drops what was stored under the previous one.
set(cache, fromFile, toFile, prefs, modeContext, entry, f) ==
    LET fingerprint == preferenceFingerprint(prefs)
        kept == IF cache.fingerprint = fingerprint THEN cache.store ELSE EmptyStore
        key == CacheKey(fromFile, toFile, prefs)
    IN [store |-> (key :> entry) @@ kept,
        packageJsonDirs |-> cache.packageJsonDirs
            \cup UNION {ManifestWatchDirs(f, p) : p \in ResolvedPaths(entry)},
        nodeModulesRoots |-> cache.nodeModulesRoots
            \cup UNION {NodeModulesAncestors(p) : p \in ResolvedPaths(entry)},
        symlinks |-> cache.symlinks \cup {p \in ResolvedPaths(entry) : IsLinkTarget(f, p)},
        fingerprint |-> fingerprint]

----------------------------------------------------------------------------
(* Invalidation triggers *)

IsPackageJson(p) == Len(p) > 0 /\ BaseName(p) = "package.json"

MatchesNodeModulesWatch(cache, ev) == \E root \in cache.nodeModulesRoots : IsPrefix(root, ev.path)

MatchesManifestWatch(cache, ev) ==
    IsPackageJson(ev.path) /\ (Dir(ev.path) = <<>> \/ Dir(ev.path) \in cache.packageJsonDirs)

MatchesSymlinkChange(ev) == ev.isLink /\ ev.kind \in {"created", "deleted"}

Matches(cache, ev) ==
    \/ MatchesNodeModulesWatch(cache, ev)
    \/ MatchesManifestWatch(cache, ev)
    \/ MatchesSymlinkChange(ev)

\* The module resolution setting a tsconfig.json content gives
ParseModuleResolution(content) ==
    IF content = tsconfigClassicContent THEN "classic" ELSE "undefined"

changesAffectModuleResolution(oldOptions, newOptions) ==
    oldOptions.moduleResolution # newOptions.moduleResolution

----------------------------------------------------------------------------
(* The resolution the completions request computes on a cache miss *)

DeclaresDependency(content, name) == content = packageJsonContent /\ name = "mobx"

InNodeModules(p) == \E i \in 1..Len(p) : p[i] = "node_modules"

PackageName(p) == p[(CHOOSE i \in 1..Len(p) : p[i] = "node_modules") + 1]

RelativeSpecifier(toFile, prefs) ==
    LET name == IF BaseName(toFile) = "a.ts" THEN "a" ELSE "b"
    IN IF Pref(prefs, "importModuleSpecifierEnding") = "js"
       THEN (IF name = "a" THEN "./a.js" ELSE "./b.js")
       ELSE (IF name = "a" THEN "./a" ELSE "./b")

Resolve(fromFile, toFile, prefs, f, options) ==
    IF InNodeModules(toFile)
    THEN [modulePaths |-> <<[path |-> toFile, isInNodeModules |-> TRUE, isRedirect |-> FALSE]>>,
          moduleSpecifiers |->
              IF options.moduleResolution = "classic" THEN <<"../node_modules/mobx/index">>
              ELSE <<PackageName(toFile)>>,
          isBlockedByPackageJsonDependencies |->
              ~DeclaresDependency(f[packageJson.path].content, PackageName(toFile))]
    ELSE [modulePaths |-> <<[path |-> toFile, isInNodeModules |-> FALSE, isRedirect |-> FALSE]>>,
          moduleSpecifiers |-> <<RelativeSpecifier(toFile, prefs)>>,
          isBlockedByPackageJsonDependencies |-> FALSE]

\* The modules a completion in the file offers to import
CompletionTargets(file) ==
    IF file = bTs.path THEN <<aTs.path>>
    ELSE IF file = cTs.path THEN <<aTs.path, mobxDts.path>>
    ELSE <<>>

\* For each target in turn: ask the cache, and on a miss compute and set
RECURSIVE Populate(_, _, _, _, _, _)
Populate(cache, fromFile, targets, prefs, f, options) ==
    IF targets = <<>> THEN cache
    ELSE LET toFile == Head(targets)
             next == IF get(cache, fromFile, toFile, prefs, emptyModeContext) = undefined
                     THEN set(cache, fromFile, toFile, prefs, emptyModeContext,
                              Resolve(fromFile, toFile, prefs, f, options), f)
                     ELSE cache
         IN Populate(next, fromFile, Tail(targets), prefs, f, options)

----------------------------------------------------------------------------
(* The state machine: setup(), then the steps a test takes *)

\* The invalidation scope of a cache: what it records besides the entries
Scope(cache) ==
    [packageJsonDirs |-> cache.packageJsonDirs,
     nodeModulesRoots |-> cache.nodeModulesRoots,
     symlinks |-> cache.symlinks,
     fingerprint |-> cache.fingerprint]

\* What the history variable keeps of a step: its name, the notifications it
\* applied, the file it was asked about, and the entry count, invalidation
\* scope, preferences and options it started from
Step(op, batch, file) ==
    [op |-> op, batch |-> batch, file |-> file,
     count |-> count(moduleSpecifierCache), scope |-> Scope(moduleSpecifierCache),
     preferences |-> preferences, compilerOptions |-> compilerOptions]

\* The inputs of host.writeFile: the writes of the test, and the writes that
\* put the original contents back
Writes ==
    {<<stagingPackageJsonPath, emptyJsonContent>>,
     <<a2TsPath, aTs.content>>,
     <<packageJson.path, emptyJsonContent>>,
     <<packageJson.path, packageJsonContent>>,
     <<tsconfig.path, tsconfigClassicContent>>,
     <<tsconfig.path, tsconfigContent>>}

\* The inputs of host.renameFile: the rename of the test, and the rename back
Renames == {<<bSymlink.path, bLink2Path>>, <<bLink2Path, bSymlink.path>>}

\* The inputs of the Configure request: the preferences of the test, and one
\* that changes a field outside the fingerprint
ConfigureArgs ==
    {setupPreferences, projectRelativePreferences, endingJsPreferences,
     [includeCompletionsForImportStatements |-> FALSE]}

\* The files the test requests completions in
CompletionFiles == {bTs.path, cTs.path}

\* The preference sets the test reads the cache with
GetPreferences == {EmptyPreferences, projectRelativePreferences, endingJsPreferences,
                   MergePreferences(projectRelativePreferences, endingJsPreferences)}

\* setup(): the host with the files of the test, the session configured for
\* import completions, and one completion request in b.ts
Init ==
    /\ fs = createServerHost({aTs, bTs, cTs, bSymlink, ambientDeclaration, tsconfig,
                              packageJson, mobxPackageJson, mobxDts})
    /\ pending = {}
    /\ preferences = MergePreferences(EmptyPreferences, setupPreferences)
    /\ compilerOptions = [moduleResolution |-> ParseModuleResolution(tsconfig.content)]
    /\ moduleSpecifierCache =
           Populate(EmptyCache, bTs.path, CompletionTargets(bTs.path), setupPreferences,
                    createServerHost({aTs, bTs, cTs, bSymlink, ambientDeclaration, tsconfig,
                                      packageJson, mobxPackageJson, mobxDts}),
                    [moduleResolution |-> ParseModuleResolution(tsconfig.content)])
    /\ stale = {}
    /\ last = [op |-> "setup", batch |-> {}, file |-> <<>>, count |-> 0,
               scope |-> Scope(EmptyCache), preferences |-> EmptyPreferences,
               compilerOptions |-> [moduleResolution |-> ParseModuleResolution(tsconfig.content)]]

\* Mutant of writeFile: the watchers act on the cache at once, and the timer
\* applies the notification a second time
WriteFile_AppliesAtOnce(path, content) ==
    LET ev == Event(path, IF path \in DOMAIN fs THEN "modified" ELSE "created", FALSE)
    IN /\ ~IsLink(fs, path)
       /\ Cardinality(pending \cup {ev}) <= MaxPending
       /\ fs' = (path :> [content |-> content]) @@ fs
       /\ pending' = pending \cup {ev}
       /\ moduleSpecifierCache' =
              IF Matches(moduleSpecifierCache, ev) THEN clear(moduleSpecifierCache)
              ELSE moduleSpecifierCache
       /\ stale' = stale \cap DOMAIN moduleSpecifierCache'.store
       /\ last' = Step("writeFile", {}, <<>>)
       /\ UNCHANGED <<preferences, compilerOptions>>

\* host.writeFile(path, content): the file is written at once, its watchers
\* are told when the timer runs
WriteFile(path, content) ==
    LET ev == Event(path, IF path \in DOMAIN fs THEN "modified" ELSE "created", FALSE)
    IN /\ ~IsLink(fs, path)
       /\ Cardinality(pending \cup {ev}) <= MaxPending
       /\ fs' = (path :> [content |-> content]) @@ fs
       /\ pending' = pending \cup {ev}
       /\ last' = Step("writeFile", {}, <<>>)
       /\ UNCHANGED <<preferences, compilerOptions, moduleSpecifierCache, stale>>

\* host.renameFile(path, newPath)
RenameFile(path, newPath) ==
    LET evs == {Event(path, "deleted", IsLink(fs, path)),
                Event(newPath, "created", IsLink(fs, path))}
    IN /\ path \in DOMAIN fs
       /\ newPath \notin DOMAIN fs
       /\ Cardinality(pending \cup evs) <= MaxPending
       /\ fs' = [q \in (DOMAIN fs \ {path}) \cup {newPath} |->
                    IF q = newPath THEN fs[path] ELSE fs[q]]
       /\ pending' = pending \cup evs
       /\ last' = Step("renameFile", {}, <<>>)
       /\ UNCHANGED <<preferences, compilerOptions, moduleSpecifierCache, stale>>

\* Whether applying the batch flushes the cache
ShouldClear(cache, batch, oldOptions, newOptions) ==
    \/ \E ev \in batch : Matches(cache, ev)
    \/ changesAffectModuleResolution(oldOptions, newOptions)

\* The events the invalidation policy names: a write under a recorded
\* node_modules root, a change of a recorded or root package.json, a link
\* added or removed, a module resolution setting changed
IsInvalidating(cache, batch, oldOptions, newOptions) ==
    \/ \E ev \in batch : \E root \in cache.nodeModulesRoots : IsPrefix(root, ev.path)
    \/ \E ev \in batch : /\ BaseName(ev.path) = "package.json"
                         /\ Dir(ev.path) \in cache.packageJsonDirs \cup {<<>>}
    \/ \E ev \in batch : ev.isLink
    \/ oldOptions.moduleResolution # newOptions.moduleResolution

\* The compiler options after the batch: a changed tsconfig.json is read again
ReloadedOptions ==
    IF \E ev \in pending : ev.path = tsconfig.path
    THEN [moduleResolution |-> ParseModuleResolution(fs[tsconfig.path].content)]
    ELSE compilerOptions

\* One pass over the queued notifications, flushing the cache or not
ApplyQueued(flush) ==
    /\ pending # {}
    /\ pending' = {}
    /\ compilerOptions' = ReloadedOptions
    /\ moduleSpecifierCache' =
           IF flush THEN clear(moduleSpecifierCache) ELSE moduleSpecifierCache
    /\ stale' = IF IsInvalidating(moduleSpecifierCache, pending, compilerOptions, ReloadedOptions)
                THEN DOMAIN moduleSpecifierCache'.store
                ELSE stale \cap DOMAIN moduleSpecifierCache'.store
    /\ last' = Step("runQueuedTimeoutCallbacks", pending, <<>>)
    /\ UNCHANGED <<fs, preferences>>

\* Mutants of runQueuedTimeoutCallbacks: the pass with a wrong flush decision
RunQueuedTimeoutCallbacks_NeverClears == ApplyQueued(FALSE)

RunQueuedTimeoutCallbacks_IgnoresNodeModules ==
    ApplyQueued(\/ \E ev \in pending : \/ MatchesManifestWatch(moduleSpecifierCache, ev)
                                        \/ MatchesSymlinkChange(ev)
                \/ changesAffectModuleResolution(compilerOptions, ReloadedOptions))

RunQueuedTimeoutCallbacks_IgnoresLinks ==
    ApplyQueued(\/ \E ev \in pending : \/ MatchesNodeModulesWatch(moduleSpecifierCache, ev)
                                        \/ MatchesManifestWatch(moduleSpecifierCache, ev)
                \/ changesAffectModuleResolution(compilerOptions, ReloadedOptions))

RunQueuedTimeoutCallbacks_IgnoresManifests ==
    ApplyQueued(\/ \E ev \in pending : \/ MatchesNodeModulesWatch(moduleSpecifierCache, ev)
                                        \/ MatchesSymlinkChange(ev)
                \/ changesAffectModuleResolution(compilerOptions, ReloadedOptions))

RunQueuedTimeoutCallbacks_IgnoresOptions ==
    ApplyQueued(\E ev \in pending : Matches(moduleSpecifierCache, ev))

RunQueuedTimeoutCallbacks_AlwaysClears == ApplyQueued(TRUE)

RunQueuedTimeoutCallbacks_ClearsOnCreate ==
    ApplyQueued(\/ ShouldClear(moduleSpecifierCache, pending, compilerOptions, ReloadedOptions)
                \/ \E ev \in pending : ev.kind = "created")

\* Mutant of runQueuedTimeoutCallbacks: the flush drops the entries and
\* keeps the invalidation scope
RunQueuedTimeoutCallbacks_KeepsScope ==
    /\ pending # {}
    /\ pending' = {}
    /\ compilerOptions' = ReloadedOptions
    /\ moduleSpecifierCache' =
           IF ShouldClear(moduleSpecifierCache, pending, compilerOptions, ReloadedOptions)
           THEN [moduleSpecifierCache EXCEPT !.store = EmptyStore]
           ELSE moduleSpecifierCache
    /\ stale' = IF IsInvalidating(moduleSpecifierCache, pending, compilerOptions, ReloadedOptions)
                THEN DOMAIN moduleSpecifierCache'.store
                ELSE stale \cap DOMAIN moduleSpecifierCache'.store
    /\ last' = Step("runQueuedTimeoutCallbacks", pending, <<>>)
    /\ UNCHANGED <<fs, preferences>>

\* Mutant of runQueuedTimeoutCallbacks: instead of flushing, the pass
\* recomputes isBlockedByPackageJsonDependencies inside the stored entries
RunQueuedTimeoutCallbacks_PatchesEntries ==
    /\ pending # {}
    /\ pending' = {}
    /\ compilerOptions' = ReloadedOptions
    /\ moduleSpecifierCache' =
           IF ShouldClear(moduleSpecifierCache, pending, compilerOptions, ReloadedOptions)
           THEN [moduleSpecifierCache EXCEPT !.store =
                    [key \in DOMAIN moduleSpecifierCache.store |->
                        [moduleSpecifierCache.store[key] EXCEPT
                            !.isBlockedByPackageJsonDependencies =
                                /\ InNodeModules(key[2])
                                /\ ~DeclaresDependency(fs[packageJson.path].content,
                                                       PackageName(key[2]))]]]
           ELSE moduleSpecifierCache
    /\ stale' = IF IsInvalidating(moduleSpecifierCache, pending, compilerOptions, ReloadedOptions)
                THEN DOMAIN moduleSpecifierCache'.store
                ELSE stale \cap DOMAIN moduleSpecifierCache'.store
    /\ last' = Step("runQueuedTimeoutCallbacks", pending, <<>>)
    /\ UNCHANGED <<fs, preferences>>

\* Mutant of runQueuedTimeoutCallbacks: after a flush the pass resolves the
\* imports of b.ts and c.ts again and stores them
RunQueuedTimeoutCallbacks_Repopulates ==
    /\ pending # {}
    /\ pending' = {}
    /\ compilerOptions' = ReloadedOptions
    /\ moduleSpecifierCache' =
           IF ShouldClear(moduleSpecifierCache, pending, compilerOptions, ReloadedOptions)
           THEN Populate(Populate(clear(moduleSpecifierCache), bTs.path,
                                  CompletionTargets(bTs.path), preferences, fs,
                                  ReloadedOptions),
                         cTs.path, CompletionTargets(cTs.path), preferences, fs,
                         ReloadedOptions)
           ELSE moduleSpecifierCache
    /\ stale' = stale \cap DOMAIN moduleSpecifierCache'.store
    /\ last' = Step("runQueuedTimeoutCallbacks", pending, <<>>)
    /\ UNCHANGED <<fs, preferences>>

\* host.runQueuedTimeoutCallbacks(): the queued notifications are applied in
\* one pass; a changed tsconfig.json reloads the compiler options
RunQueuedTimeoutCallbacks ==
    ApplyQueued(ShouldClear(moduleSpecifierCache, pending, compilerOptions, ReloadedOptions))

\* Mutant of Configure: a change of the fingerprint flushes the cache at once
Configure_Clears(args) ==
    /\ preferences' = MergePreferences(preferences, args)
    /\ moduleSpecifierCache' =
           IF preferenceFingerprint(preferences') # preferenceFingerprint(preferences)
           THEN clear(moduleSpecifierCache) ELSE moduleSpecifierCache
    /\ stale' = stale \cap DOMAIN moduleSpecifierCache'.store
    /\ last' = Step("configure", {}, <<>>)
    /\ UNCHANGED <<fs, pending, compilerOptions>>

\* Mutant of Configure: any change of the preferences flushes the cache
Configure_ClearsOnAnyChange(args) ==
    /\ preferences' = MergePreferences(preferences, args)
    /\ moduleSpecifierCache' =
           IF preferences' # preferences THEN clear(moduleSpecifierCache)
           ELSE moduleSpecifierCache
    /\ stale' = stale \cap DOMAIN moduleSpecifierCache'.store
    /\ last' = Step("configure", {}, <<>>)
    /\ UNCHANGED <<fs, pending, compilerOptions>>

\* The Configure request with preferences
Configure(args) ==
    /\ preferences' = MergePreferences(preferences, args)
    /\ last' = Step("configure", {}, <<>>)
    /\ UNCHANGED <<fs, pending, compilerOptions, moduleSpecifierCache, stale>>

\* A completion request in a file, offering the targets under the preferences:
\* it gets, and on a miss computes and sets, the specifiers of every target
Complete(file, targets, prefs) ==
    /\ moduleSpecifierCache' =
           Populate(moduleSpecifierCache, file, targets, prefs, fs, compilerOptions)
    /\ stale' = (stale \cap DOMAIN moduleSpecifierCache'.store) \
           {CacheKey(file, targets[i], prefs) :
               i \in {j \in DOMAIN targets :
                         get(moduleSpecifierCache, file, targets[j], prefs, emptyModeContext)
                             = undefined}}
    /\ last' = Step("triggerCompletions", {}, file)
    /\ UNCHANGED <<fs, pending, preferences, compilerOptions>>

\* Mutants of triggerCompletions: the request computes under no preferences,
\* or asks the cache and never sets
triggerCompletions_IgnoresPreferences(file) ==
    Complete(file, CompletionTargets(file), EmptyPreferences)

triggerCompletions_NeverSets(file) == Complete(file, <<>>, preferences)

\* The CompletionInfo request of the test, under the configured preferences
triggerCompletions(file) == Complete(file, CompletionTargets(file), preferences)

Next ==
    \/ \E w \in Writes : WriteFile(w[1], w[2])
    \/ \E r \in Renames : RenameFile(r[1], r[2])
    \/ RunQueuedTimeoutCallbacks
    \/ \E args \in ConfigureArgs : Configure(args)
    \/ \E file \in CompletionFiles : triggerCompletions(file)

Spec == Init /\ [][Next]_vars

----------------------------------------------------------------------------
(* The cache facade called directly: get, set and clear on a new cache, with *)
(* inputs from small sets.  The host, the session and the project stay as    *)
(* setup() leaves them.                                                      *)

\* A path that names no file of the host
missingTsPath == <<"src", "missing.ts">>

FacadeFromFiles == {bTs.path, cTs.path}

FacadeToFiles == {aTs.path, bTs.path, mobxDts.path}

FacadePreferences == {EmptyPreferences, projectRelativePreferences}

\* The hosts a stored entry may have been resolved against: the files of the
\* test, and the same with the dependencies dropped from /package.json
FacadeHosts ==
    {createServerHost({aTs, bTs, cTs, bSymlink, ambientDeclaration, tsconfig,
                       packageJson, mobxPackageJson, mobxDts}),
     createServerHost({aTs, bTs, cTs, bSymlink, ambientDeclaration, tsconfig,
                       [path |-> packageJson.path, content |-> emptyJsonContent],
                       mobxPackageJson, mobxDts})}

\* What the history variable keeps of a facade call: its name and inputs,
\* whether the key had an entry, what get returned before the call, and the
\* entry count and invalidation scope before it
FacadeStep(op, fromFile, toFile, prefs, entry) ==
    [op |-> op, fromFile |-> fromFile, toFile |-> toFile, preferences |-> prefs,
     entry |-> entry,
     had |-> CacheKey(fromFile, toFile, prefs) \in DOMAIN moduleSpecifierCache.store,
     result |-> get(moduleSpecifierCache, fromFile, toFile, prefs, emptyModeContext),
     count |-> count(moduleSpecifierCache), scope |-> Scope(moduleSpecifierCache)]

FacadeInit ==
    /\ fs = createServerHost({aTs, bTs, cTs, bSymlink, ambientDeclaration, tsconfig,
                              packageJson, mobxPackageJson, mobxDts})
    /\ pending = {}
    /\ preferences = MergePreferences(EmptyPreferences, setupPreferences)
    /\ compilerOptions = [moduleResolution |-> ParseModuleResolution(tsconfig.content)]
    /\ moduleSpecifierCache = EmptyCache
    /\ stale = {}
    /\ last = [op |-> "create", fromFile |-> <<>>, toFile |-> <<>>,
               preferences |-> EmptyPreferences, entry |-> undefined, had |-> FALSE,
               result |-> undefined, count |-> 0, scope |-> Scope(EmptyCache)]

\* A call of set that leaves the cache as given
FacadeSetTo(fromFile, toFile, prefs, entry, cache) ==
    /\ moduleSpecifierCache' = cache
    /\ last' = FacadeStep("set", fromFile, toFile, prefs, entry)
    /\ UNCHANGED <<fs, pending, preferences, compilerOptions, stale>>

\* Mutants of set: the first entry of a key wins; the scope is not extended
FacadeSet_KeepsFirst(fromFile, toFile, prefs, entry) ==
    FacadeSetTo(fromFile, toFile, prefs, entry,
                IF CacheKey(fromFile, toFile, prefs) \in DOMAIN moduleSpecifierCache.store
                THEN moduleSpecifierCache
                ELSE set(moduleSpecifierCache, fromFile, toFile, prefs, emptyModeContext,
                         entry, fs))

FacadeSet_StoresOnly(fromFile, toFile, prefs, entry) ==
    FacadeSetTo(fromFile, toFile, prefs, entry,
                [moduleSpecifierCache EXCEPT
                    !.store = set(moduleSpecifierCache, fromFile, toFile, prefs,
                                  emptyModeContext, entry, fs).store,
                    !.fingerprint = preferenceFingerprint(prefs)])

\* moduleSpecifierCache.set(fromFile, toFile, preferences, {}, entry)
FacadeSet(fromFile, toFile, prefs, entry) ==
    FacadeSetTo(fromFile, toFile, prefs, entry,
                set(moduleSpecifierCache, fromFile, toFile, prefs, emptyModeContext, entry, fs))

\* A call of get that returns the result and leaves the cache as given
FacadeGetTo(fromFile, toFile, prefs, result, cache) ==
    /\ moduleSpecifierCache' = cache
    /\ last' = [FacadeStep("get", fromFile, toFile, prefs, undefined) EXCEPT !.result = result]
    /\ UNCHANGED <<fs, pending, preferences, compilerOptions, stale>>

\* Mutants of get: the lookup ignores the preferences; a miss is recorded in
\* the store
FacadeGet_IgnoresPreferences(fromFile, toFile, prefs) ==
    FacadeGetTo(fromFile, toFile, prefs,
                IF \E key \in DOMAIN moduleSpecifierCache.store :
                       key[1] = fromFile /\ key[2] = toFile
                THEN moduleSpecifierCache.store[
                         CHOOSE key \in DOMAIN moduleSpecifierCache.store :
                             key[1] = fromFile /\ key[2] = toFile]
                ELSE undefined,
                moduleSpecifierCache)

FacadeGet_RecordsMiss(fromFile, toFile, prefs) ==
    FacadeGetTo(fromFile, toFile, prefs,
                get(moduleSpecifierCache, fromFile, toFile, prefs, emptyModeContext),
                IF CacheKey(fromFile, toFile, prefs) \in DOMAIN moduleSpecifierCache.store
                THEN moduleSpecifierCache
                ELSE [moduleSpecifierCache EXCEPT
                         !.store = (CacheKey(fromFile, toFile, prefs) :> undefined) @@ @])

\* moduleSpecifierCache.get(fromFile, toFile, preferences, {})
FacadeGet(fromFile, toFile, prefs) ==
    FacadeGetTo(fromFile, toFile, prefs,
                get(moduleSpecifierCache, fromFile, toFile, prefs, emptyModeContext),
                moduleSpecifierCache)

\* moduleSpecifierCache.clear()
FacadeClear ==
    /\ moduleSpecifierCache' = clear(moduleSpecifierCache)
    /\ last' = FacadeStep("clear", <<>>, <<>>, EmptyPreferences, undefined)
    /\ UNCHANGED <<fs, pending, preferences, compilerOptions, stale>>

FacadeNext ==
    \/ \E fromFile \in FacadeFromFiles : \E toFile \in FacadeToFiles :
         \E prefs \in FacadePreferences : \E host \in FacadeHosts :
           FacadeSet(fromFile, toFile, prefs,
                     Resolve(fromFile, toFile, prefs, host, compilerOptions))
    \/ \E fromFile \in FacadeFromFiles \cup {missingTsPath} :
         \E toFile \in FacadeToFiles \cup {missingTsPath} :
           \E prefs \in FacadePreferences : FacadeGet(fromFile, toFile, prefs)
    \/ FacadeClear

FacadeSpec == FacadeInit /\ [][FacadeNext]_vars

----------------------------------------------------------------------------
(* What the properties quantify over *)

QueryFromFiles == CompletionFiles

QueryToFiles == {aTs.path, mobxDts.path}

IsRunStep == last.op = "runQueuedTimeoutCallbacks"

IsCompletionStep == last.op = "triggerCompletions"

IsConfigureStep == last.op = "configure"

UnderRecordedNodeModules(scope, ev) == \E root \in scope.nodeModulesRoots : IsPrefix(root, ev.path)

IsRecordedManifest(scope, ev) ==
    /\ BaseName(ev.path) = "package.json"
    /\ Dir(ev.path) \in scope.packageJsonDirs \cup {<<>>}

----------------------------------------------------------------------------
(* C1 *)

\* C1: round trip.  Every entry a completion request sets (the targets it
\* missed on) is what get returns right after the request, for the same file,
\* target, preferences and mode context: the entry the resolution computed,
\* with its modulePaths, moduleSpecifiers and isBlockedByPackageJsonDependencies.
C1_RoundTrip ==
    [][\A file \in CompletionFiles : \A i \in DOMAIN CompletionTargets(file) :
          (/\ last'.op = "triggerCompletions"
           /\ last'.file = file
           /\ get(moduleSpecifierCache, file, CompletionTargets(file)[i], preferences,
                  emptyModeContext) = undefined)
          => get(moduleSpecifierCache', file, CompletionTargets(file)[i], preferences',
                 emptyModeContext)
               = Resolve(file, CompletionTargets(file)[i], preferences, fs, compilerOptions)]_vars

\* A completion in c.ts has just set two entries, and the one for mobx is the
\* entry of the test: one module path in node_modules, specifier "mobx", not blocked
C1_Witness ==
    /\ IsCompletionStep
    /\ last.file = cTs.path
    /\ count(moduleSpecifierCache) = last.count + 2
    /\ get(moduleSpecifierCache, cTs.path, mobxDts.path, EmptyPreferences, emptyModeContext)
         = [modulePaths |-> <<[path |-> mobxDts.path, isInNodeModules |-> TRUE,
                               isRedirect |-> FALSE]>>,
            moduleSpecifiers |-> <<"mobx">>,
            isBlockedByPackageJsonDependencies |-> FALSE]

----------------------------------------------------------------------------
(* C2 *)

\* C2: no stale entry is served.  In every reachable state, get returns no
\* entry that was stored before the most recently applied invalidating event
\* (a write under a recorded node_modules root, a change of a recorded or root
\* package.json, a link added or removed, a module resolution setting changed).
C2_NoStaleEntry ==
    \A fromFile \in QueryFromFiles : \A toFile \in QueryToFiles : \A prefs \in GetPreferences :
        CacheKey(fromFile, toFile, prefs) \in stale
        => get(moduleSpecifierCache, fromFile, toFile, prefs, emptyModeContext) = undefined

\* An invalidating batch (the package.json at the root was changed) has just
\* been applied to a cache that held three entries, and no get returns one
C2_Witness ==
    /\ IsRunStep
    /\ last.count = 3
    /\ \E ev \in last.batch : ev.path = packageJson.path
    /\ \A fromFile \in QueryFromFiles : \A toFile \in QueryToFiles : \A prefs \in GetPreferences :
           get(moduleSpecifierCache, fromFile, toFile, prefs, emptyModeContext) = undefined

----------------------------------------------------------------------------
(* C3 *)

\* C3: after a write under a directory recorded as a node_modules watch root
\* has been applied, count() = 0; the written path need not be a resolved
\* module path (node_modules/.staging/<pkg>/package.json).
C3_NodeModulesWriteClears ==
    (IsRunStep /\ \E ev \in last.batch : UnderRecordedNodeModules(last.scope, ev))
    => count(moduleSpecifierCache) = 0

\* The staging write alone was applied to a cache holding the mobx entry
C3_Witness ==
    /\ IsRunStep
    /\ last.batch = {Event(stagingPackageJsonPath, "created", FALSE)}
    /\ <<"node_modules">> \in last.scope.nodeModulesRoots
    /\ last.count > 0
    /\ count(moduleSpecifierCache) = 0

----------------------------------------------------------------------------
(* C4 *)

----------------------------------------------------------------------------
(* C5 *)

\* C5: after the package.json at the project root, or one in a recorded
\* manifest directory, was changed and the event has been applied, count() = 0.
C5_PackageJsonChangeClears ==
    (IsRunStep /\ \E ev \in last.batch : IsRecordedManifest(last.scope, ev))
    => count(moduleSpecifierCache) = 0

\* The write of /package.json alone was applied to a cache that held an entry
C5_Witness ==
    /\ IsRunStep
    /\ last.batch = {Event(packageJson.path, "modified", FALSE)}
    /\ fs[packageJson.path].content = emptyJsonContent
    /\ last.count > 0
    /\ count(moduleSpecifierCache) = 0

----------------------------------------------------------------------------
(* C6 *)

\* C6: after a module resolution setting changed (tsconfig.json switched to
\* moduleResolution classic, or back) and the change has been applied,
\* count() = 0, whatever the invalidation scope recorded.
C6_ModuleResolutionChangeClears ==
    (IsRunStep /\ last.compilerOptions.moduleResolution # compilerOptions.moduleResolution)
    => count(moduleSpecifierCache) = 0

\* The write of tsconfig.json alone switched the project to classic resolution
\* while the cache held an entry and had recorded no node_modules root
C6_Witness ==
    /\ IsRunStep
    /\ last.batch = {Event(tsconfig.path, "modified", FALSE)}
    /\ last.compilerOptions.moduleResolution = "undefined"
    /\ compilerOptions.moduleResolution = "classic"
    /\ last.scope.nodeModulesRoots = {}
    /\ last.count > 0
    /\ count(moduleSpecifierCache) = 0

----------------------------------------------------------------------------
(* C7 *)

\* An event outside everything the scope recorded: under no recorded
\* node_modules root, no recorded or root package.json, no recorded link,
\* and no change of the link structure
OutsideRecordedScope(scope, ev) ==
    /\ ~UnderRecordedNodeModules(scope, ev)
    /\ ~IsRecordedManifest(scope, ev)
    /\ \A l \in scope.symlinks : ~IsPrefix(l, ev.path)
    /\ ~ev.isLink

\* C7 as stated: when every applied filesystem event lies outside every
\* recorded manifest, node_modules and symlink scope and is no link-structure
\* change, count() after the events are applied equals count() before.
C7_Original ==
    (IsRunStep /\ \A ev \in last.batch : OutsideRecordedScope(last.scope, ev))
    => count(moduleSpecifierCache) = last.count

\* C7 amended: when every applied filesystem event lies outside every recorded
\* manifest, node_modules and symlink scope, is no link-structure change, and
\* the events change no module resolution setting (tsconfig.json is such a
\* path), count() after the events are applied equals count() before.
C7_UnrelatedEventsKeepCount ==
    (/\ IsRunStep
     /\ \A ev \in last.batch : OutsideRecordedScope(last.scope, ev)
     /\ last.compilerOptions.moduleResolution = compilerOptions.moduleResolution)
    => count(moduleSpecifierCache) = last.count

\* A rewrite of the existing /src/a2.ts alone was applied to a cache holding
\* three entries, and the three are still counted
C7_Witness ==
    /\ IsRunStep
    /\ last.batch = {Event(a2TsPath, "modified", FALSE)}
    /\ OutsideRecordedScope(last.scope, Event(a2TsPath, "modified", FALSE))
    /\ last.count = 3
    /\ count(moduleSpecifierCache) = 3

----------------------------------------------------------------------------
(* C8 *)

\* The creation of a source file next to the sources of the project, in no
\* watched node_modules or manifest place
IsNewSiblingSourceFile(scope, ev) ==
    /\ ev.kind = "created"
    /\ Dir(ev.path) = Dir(aTs.path)
    /\ OutsideRecordedScope(scope, ev)

\* C8: when the creation of a new sibling source file is applied, every key
\* that had an entry before still has it: get with the same inputs returns the
\* same entry.
C8_NewFileKeepsEntries ==
    [][(/\ last'.op = "runQueuedTimeoutCallbacks"
        /\ \A ev \in pending : IsNewSiblingSourceFile(Scope(moduleSpecifierCache), ev))
       => \A fromFile \in QueryFromFiles : \A toFile \in QueryToFiles :
            \A prefs \in GetPreferences :
              get(moduleSpecifierCache, fromFile, toFile, prefs, emptyModeContext) # undefined
              => get(moduleSpecifierCache', fromFile, toFile, prefs, emptyModeContext)
                   = get(moduleSpecifierCache, fromFile, toFile, prefs, emptyModeContext)]_vars

\* The creation of /src/a2.ts alone was applied, as in the test, and the entry
\* of setup() for b.ts -> a.ts is still served and not blocked
C8_Witness ==
    /\ IsRunStep
    /\ last.batch = {Event(a2TsPath, "created", FALSE)}
    /\ last.count > 0
    /\ get(moduleSpecifierCache, bTs.path, aTs.path, EmptyPreferences, emptyModeContext)
         # undefined
    /\ ~get(moduleSpecifierCache, bTs.path, aTs.path, EmptyPreferences, emptyModeContext)
           .isBlockedByPackageJsonDependencies

----------------------------------------------------------------------------
(* C9 *)

\* What C9 says of the Configure request: when it changes the fingerprint, it
\* clears nothing; get with the old preferences returns what it returned, and
\* get with the new ones returns absence while the store is under the old ones
ConfigureKeepsEntries ==
    (/\ last'.op = "configure"
     /\ preferenceFingerprint(preferences') # preferenceFingerprint(preferences))
    => /\ count(moduleSpecifierCache') = count(moduleSpecifierCache)
       /\ \A fromFile \in QueryFromFiles : \A toFile \in QueryToFiles :
            /\ get(moduleSpecifierCache', fromFile, toFile, preferences, emptyModeContext)
                 = get(moduleSpecifierCache, fromFile, toFile, preferences, emptyModeContext)
            /\ moduleSpecifierCache.fingerprint = preferenceFingerprint(preferences)
               => get(moduleSpecifierCache', fromFile, toFile, preferences', emptyModeContext)
                    = undefined

\* C9 as stated: the Configure request clears nothing, and the entries under
\* the old and the new fingerprint coexist as distinct keys: a completion
\* request that stores under the new fingerprint keeps every entry stored before.
C9_Original ==
    [][/\ ConfigureKeepsEntries
       /\ last'.op = "triggerCompletions"
          => \A key \in DOMAIN moduleSpecifierCache.store :
                 /\ key \in DOMAIN moduleSpecifierCache'.store
                 /\ moduleSpecifierCache'.store[key] = moduleSpecifierCache.store[key]]_vars

\* C9 amended: the Configure request clears nothing (get with the old
\* preferences still returns the old entry, get with the new ones returns
\* absence until repopulated), but the entries under the old and the new
\* fingerprint never coexist: all live entries are under one fingerprint.
C9_ConfigureKeepsEntriesUnderOneFingerprint ==
    [][/\ ConfigureKeepsEntries
       /\ \A key \in DOMAIN moduleSpecifierCache'.store :
              \A other \in DOMAIN moduleSpecifierCache'.store : key[3] = other[3]]_vars

\* The ending preference was just configured on top of project-relative: the
\* entry under project-relative is still served, nothing is under the new
\* fingerprint, and the entry once stored under the empty preferences is gone
C9_Witness ==
    /\ IsConfigureStep
    /\ preferenceFingerprint(last.preferences) = <<"project-relative", "undefined">>
    /\ preferenceFingerprint(preferences) = <<"project-relative", "js">>
    /\ get(moduleSpecifierCache, bTs.path, aTs.path, last.preferences, emptyModeContext)
         # undefined
    /\ get(moduleSpecifierCache, bTs.path, aTs.path, preferences, emptyModeContext) = undefined
    /\ get(moduleSpecifierCache, bTs.path, aTs.path, EmptyPreferences, emptyModeContext)
         = undefined

----------------------------------------------------------------------------
(* C10 *)

\* C10: once a completion request has repopulated the cache for a file and
\* its targets under preferences whose fingerprint differs from the one the
\* store was under, get for the same file and target with a previous
\* preference set returns undefined, and get with the new preference set
\* returns the new entry.
C10_RepopulationDropsOldFingerprint ==
    (/\ IsCompletionStep
     /\ last.count > 0
     /\ last.scope.fingerprint # preferenceFingerprint(preferences))
    => \A i \in DOMAIN CompletionTargets(last.file) :
         /\ \A prefs \in GetPreferences :
              preferenceFingerprint(prefs) = last.scope.fingerprint
              => get(moduleSpecifierCache, last.file, CompletionTargets(last.file)[i],
                     prefs, emptyModeContext) = undefined
         /\ get(moduleSpecifierCache, last.file, CompletionTargets(last.file)[i],
                preferences, emptyModeContext)
              = Resolve(last.file, CompletionTargets(last.file)[i], preferences, fs,
                        compilerOptions)

\* The completion in b.ts ran after project-relative was configured: get with
\* the empty preferences is undefined and get with the new ones has the entry
C10_Witness ==
    /\ IsCompletionStep
    /\ last.file = bTs.path
    /\ last.count > 0
    /\ last.scope.fingerprint = preferenceFingerprint(EmptyPreferences)
    /\ get(moduleSpecifierCache, bTs.path, aTs.path, EmptyPreferences, emptyModeContext)
         = undefined
    /\ get(moduleSpecifierCache, bTs.path, aTs.path, projectRelativePreferences,
           emptyModeContext) # undefined

----------------------------------------------------------------------------
(* C11 *)

\* The preferences with every field outside the fingerprint removed
FingerprintFieldsOnly(prefs) ==
    [f \in DOMAIN prefs \cap {"importModuleSpecifierPreference", "importModuleSpecifierEnding"}
        |-> prefs[f]]

\* C11: the fingerprint depends only on the resolution-affecting fields.  An
\* entry a completion request sets under the configured preferences (which
\* carry includeCompletions... fields) is what get returns under the same
\* preferences without those fields; and a Configure request that changes only
\* fields outside the fingerprint removes no entry: every get returns under
\* the new preferences what it returned under the old ones.
C11_FingerprintIgnoresOtherFields ==
    /\ [](IsCompletionStep
          => \A i \in DOMAIN CompletionTargets(last.file) :
               /\ get(moduleSpecifierCache, last.file, CompletionTargets(last.file)[i],
                      FingerprintFieldsOnly(preferences), emptyModeContext) # undefined
               /\ get(moduleSpecifierCache, last.file, CompletionTargets(last.file)[i],
                      FingerprintFieldsOnly(preferences), emptyModeContext)
                    = get(moduleSpecifierCache, last.file, CompletionTargets(last.file)[i],
                          preferences, emptyModeContext))
    /\ [][(/\ last'.op = "configure"
           /\ preferenceFingerprint(preferences') = preferenceFingerprint(preferences))
          => /\ count(moduleSpecifierCache') = count(moduleSpecifierCache)
             /\ \A fromFile \in QueryFromFiles : \A toFile \in QueryToFiles :
                  get(moduleSpecifierCache', fromFile, toFile, preferences', emptyModeContext)
                    = get(moduleSpecifierCache, fromFile, toFile, preferences,
                          emptyModeContext)]_vars

\* includeCompletionsForImportStatements was just switched off, a field
\* outside the fingerprint: the entry of b.ts -> a.ts is served under the new
\* preferences and under the empty ones alike
C11_Witness ==
    /\ IsConfigureStep
    /\ Pref(last.preferences, "includeCompletionsForImportStatements") = TRUE
    /\ Pref(preferences, "includeCompletionsForImportStatements") = FALSE
    /\ count(moduleSpecifierCache) > 0
    /\ get(moduleSpecifierCache, bTs.path, aTs.path, preferences, emptyModeContext) # undefined
    /\ get(moduleSpecifierCache, bTs.path, aTs.path, preferences, emptyModeContext)
         = get(moduleSpecifierCache, bTs.path, aTs.path, EmptyPreferences, emptyModeContext)

----------------------------------------------------------------------------
(* C12 *)

\* The applied batch held an event that makes the pass call clear()
BatchCleared == IsInvalidating(last.scope, last.batch, last.compilerOptions, compilerOptions)

----------------------------------------------------------------------------
(* C13 *)

\* C13: set overwrites.  After set, get with the same inputs returns the entry
\* just given, also when the key had another entry; a set on a key that had an
\* entry leaves count() unchanged, so the store holds one entry per
\* (fromFile, toFile, fingerprint) key.
C13_SetOverwrites ==
    last.op = "set"
    => /\ get(moduleSpecifierCache, last.fromFile, last.toFile, last.preferences,
              emptyModeContext) = last.entry
       /\ last.had => count(moduleSpecifierCache) = last.count

\* The key c.ts -> mobx had an entry, set gave it a different one, and get
\* returns the second while count() is what it was
C13_Witness ==
    /\ last.op = "set"
    /\ last.toFile = mobxDts.path
    /\ last.had
    /\ last.result # last.entry
    /\ get(moduleSpecifierCache, last.fromFile, last.toFile, last.preferences,
           emptyModeContext) = last.entry
    /\ count(moduleSpecifierCache) = last.count

----------------------------------------------------------------------------
(* C14 *)

\* C14: get on a key with no stored entry returns undefined, for every input
\* tuple: files never set, files the host does not have, preferences under
\* which nothing is stored.
C14_GetMissReturnsUndefined ==
    (last.op = "get" /\ ~last.had) => last.result = undefined

\* get under preferences other than those the entry of the same file and
\* target is stored under has just returned undefined
C14_Witness ==
    /\ last.op = "get"
    /\ last.toFile # missingTsPath
    /\ last.fromFile # missingTsPath
    /\ ~last.had
    /\ \E key \in DOMAIN moduleSpecifierCache.store :
           key[1] = last.fromFile /\ key[2] = last.toFile
    /\ last.result = undefined

\* get for a file the host does not have returns undefined
C14_MissingFileWitness ==
    /\ last.op = "get"
    /\ last.fromFile = missingTsPath
    /\ count(moduleSpecifierCache) > 0
    /\ last.result = undefined

----------------------------------------------------------------------------
(* C15 *)

\* C15: get has no side effect.  Whether it hits or misses, the store, count()
\* and the invalidation scope after get are what they were before.
C15_GetHasNoSideEffect ==
    [][last'.op = "get"
       => /\ moduleSpecifierCache'.store = moduleSpecifierCache.store
          /\ count(moduleSpecifierCache') = count(moduleSpecifierCache)
          /\ Scope(moduleSpecifierCache') = Scope(moduleSpecifierCache)]_vars

\* get has just missed on a cache with entries and a recorded scope, and both
\* are as before
C15_Witness ==
    /\ last.op = "get"
    /\ ~last.had
    /\ last.count = 2
    /\ count(moduleSpecifierCache) = 2
    /\ last.scope.nodeModulesRoots # {}
    /\ Scope(moduleSpecifierCache) = last.scope

----------------------------------------------------------------------------
(* C16 *)

\* The step taken sets the key: a completion request in the file, offering the
\* target, under preferences of the same fingerprint, that missed on the key
IsSetOn(fromFile, toFile, prefs) ==
    /\ last'.op = "triggerCompletions"
    /\ last'.file = fromFile
    /\ \E i \in DOMAIN CompletionTargets(fromFile) : CompletionTargets(fromFile)[i] = toFile
    /\ preferenceFingerprint(prefs) = preferenceFingerprint(preferences)
    /\ get(moduleSpecifierCache, fromFile, toFile, prefs, emptyModeContext) = undefined

\* C16: stored entries are immutable.  For every key, across every step that
\* is not a set on that key, what get returns stays identical or becomes
\* absent: no event and no request changes the content of a live entry.
C16_EntriesAreImmutable ==
    [][\/ moduleSpecifierCache'.store = moduleSpecifierCache.store
       \/ \A fromFile \in QueryFromFiles : \A toFile \in QueryToFiles :
         \A prefs \in GetPreferences :
           ~IsSetOn(fromFile, toFile, prefs)
           => \/ get(moduleSpecifierCache', fromFile, toFile, prefs, emptyModeContext)
                   = get(moduleSpecifierCache, fromFile, toFile, prefs, emptyModeContext)
              \/ get(moduleSpecifierCache', fromFile, toFile, prefs, emptyModeContext)
                   = undefined]_vars

\* /package.json was just rewritten without its dependencies, and the mobx
\* entry stored before still says it is not blocked: the write did not touch it
C16_Witness ==
    /\ last.op = "writeFile"
    /\ fs[packageJson.path].content = emptyJsonContent
    /\ Event(packageJson.path, "modified", FALSE) \in pending
    /\ get(moduleSpecifierCache, cTs.path, mobxDts.path, EmptyPreferences, emptyModeContext)
         # undefined
    /\ ~get(moduleSpecifierCache, cTs.path, mobxDts.path, EmptyPreferences, emptyModeContext)
           .isBlockedByPackageJsonDependencies

----------------------------------------------------------------------------
(* C17 *)

\* C17: file change notifications are batched.  A write or a rename queues its
\* notifications and leaves the cache and the compiler options alone; the
\* timer callback applies everything queued in one pass, after which nothing
\* is queued and the cache reflects every event of the burst: it is empty when
\* any of them invalidates, untouched otherwise, and the options are those of
\* the tsconfig.json as last written.
C17_NotificationsAreBatched ==
    [][/\ last'.op \in {"writeFile", "renameFile"}
          => /\ moduleSpecifierCache' = moduleSpecifierCache
             /\ compilerOptions' = compilerOptions
             /\ pending \subseteq pending'
             /\ pending' # {}
       /\ last'.op = "runQueuedTimeoutCallbacks"
          => /\ last'.batch = pending
             /\ pending' = {}
             /\ (\E ev \in pending : ev.path = tsconfig.path)
                => compilerOptions'.moduleResolution
                     = ParseModuleResolution(fs[tsconfig.path].content)
             /\ IF IsInvalidating(moduleSpecifierCache, pending, compilerOptions,
                                  compilerOptions')
                THEN count(moduleSpecifierCache') = 0
                ELSE moduleSpecifierCache' = moduleSpecifierCache]_vars

\* A burst of two writes, the new /src/a2.ts and /package.json, was applied in
\* one pass: the cache that held entries is empty and nothing is queued
C17_Witness ==
    /\ IsRunStep
    /\ last.batch = {Event(a2TsPath, "created", FALSE),
                     Event(packageJson.path, "modified", FALSE)}
    /\ last.count > 0
    /\ count(moduleSpecifierCache) = 0
    /\ pending = {}

----------------------------------------------------------------------------
(* C18 *)

\* The resolved module paths of the live entries
LiveResolvedPaths ==
    UNION {ResolvedPaths(moduleSpecifierCache.store[key]) :
             key \in DOMAIN moduleSpecifierCache.store}

ScopeCoversLiveEntries ==
    \A p \in LiveResolvedPaths :
        /\ ManifestWatchDirs(fs, p) \subseteq moduleSpecifierCache.packageJsonDirs
        /\ NodeModulesAncestors(p) \subseteq moduleSpecifierCache.nodeModulesRoots
        /\ IsLinkTarget(fs, p) => p \in moduleSpecifierCache.symlinks

\* C18: in every state, for every live entry, the invalidation scope holds
\* every directory from each resolved module path up to the nearest ancestor
\* with a package.json, every node_modules ancestor of those paths, and every
\* resolved path that is the target of a symbolic link; and across every call
\* other than clear, each part of the scope keeps what it held.
C18_ScopeCoversLiveEntries ==
    /\ []ScopeCoversLiveEntries
    /\ [][last'.op # "clear"
          => /\ moduleSpecifierCache.packageJsonDirs
                  \subseteq moduleSpecifierCache'.packageJsonDirs
             /\ moduleSpecifierCache.nodeModulesRoots
                  \subseteq moduleSpecifierCache'.nodeModulesRoots
             /\ moduleSpecifierCache.symlinks \subseteq moduleSpecifierCache'.symlinks]_vars

\* Entries for the link target /src/b.ts and for mobx are live: all three
\* parts of the scope are in use, and the last set extended a scope that
\* already held directories
C18_Witness ==
    /\ last.op = "set"
    /\ last.scope.packageJsonDirs # {}
    /\ last.scope # Scope(moduleSpecifierCache)
    /\ {bTs.path, mobxDts.path} \subseteq LiveResolvedPaths
    /\ bTs.path \in moduleSpecifierCache.symlinks
    /\ <<"node_modules">> \in moduleSpecifierCache.nodeModulesRoots
    /\ Dir(mobxDts.path) \in moduleSpecifierCache.packageJsonDirs

----------------------------------------------------------------------------
(* C19 *)

\* The distinct keys for which get returns an entry
LiveKeys ==
    {CacheKey(q[1], q[2], q[3]) :
       q \in {r \in QueryFromFiles \X QueryToFiles \X GetPreferences :
                get(moduleSpecifierCache, r[1], r[2], r[3], emptyModeContext) # undefined}}

\* C19: count() is the number of distinct keys for which get returns an
\* entry, so it is 0 exactly when every get returns undefined; and count()
\* rises, and a key gets an entry, only across a completion request, the one
\* step that calls set: no write, rename, timer pass or configure adds an entry.
C19_CountIsNumberOfLiveKeys ==
    /\ [](/\ count(moduleSpecifierCache) = Cardinality(LiveKeys)
          /\ count(moduleSpecifierCache) = 0
               <=> \A q \in QueryFromFiles \X QueryToFiles \X GetPreferences :
                     get(moduleSpecifierCache, q[1], q[2], q[3], emptyModeContext)
                         = undefined)
    /\ [][\/ count(moduleSpecifierCache') > count(moduleSpecifierCache)
          \/ ~(DOMAIN moduleSpecifierCache'.store \subseteq DOMAIN moduleSpecifierCache.store)
          => last'.op = "triggerCompletions"]_vars

\* After a flush had emptied the cache, a completion request in c.ts stored
\* two entries: get returns both and count() is 2
C19_Witness ==
    /\ IsCompletionStep
    /\ last.file = cTs.path
    /\ last.count = 0
    /\ count(moduleSpecifierCache) = 2
    /\ Cardinality(LiveKeys) = 2
    /\ fs[packageJson.path].content = emptyJsonContent

====
